---- MODULE Spec2Model ----
(***************************************************************************)
(* Receipt ingestion pipeline of the expense-tracker service:              *)
(* multer upload -> processReceiptAndCreateTransaction -> runOCRScript     *)
(* (python subprocess) -> convertOCRToTransaction -> Transaction.save,     *)
(* with the catch block's file cleanup and error mapping.                  *)
(*                                                                         *)
(* Strings that the code searches (error.message.includes) are modelled   *)
(* as sequences of words, so a substring test is a real search.            *)
(* JavaScript values are tagged records: [t |-> "num", n |-> 42],          *)
(* [t |-> "str", s |-> "abc"], [t |-> "undef"], [t |-> "nan"], ...         *)
(***************************************************************************)
EXTENDS Integers, Sequences, FiniteSets, TLC

\* Number of requests the server receives (all may be in flight together).
MaxReq == 1
\* Largest reading of the wall clock (Date.now()).
MaxClock == 1

Reqs == 1..MaxReq
Times == 0..MaxClock

----------------------------------------------------------------------------
\* JavaScript values

Undef == [t |-> "undef"]
Null == [t |-> "null"]
NaN == [t |-> "nan"]
Num(n) == [t |-> "num", n |-> n]
Str(s) == [t |-> "str", s |-> s]
Arr(a) == [t |-> "arr", a |-> a]
InvalidDate == [t |-> "invalid_date"]
DateAt(d) == [t |-> "date", d |-> d]

\* JavaScript truthiness (ToBoolean)
Truthy(v) ==
  CASE v.t = "undef" -> FALSE
    [] v.t = "null" -> FALSE
    [] v.t = "nan" -> FALSE
    [] v.t = "num" -> v.n # 0
    [] v.t = "str" -> v.s # ""
    [] OTHER -> TRUE

\* a || b
JsOr(a, b) == IF Truthy(a) THEN a ELSE b

\* obj.key on a parsed object: undefined when the key is absent
Get(obj, key) == IF key \in DOMAIN obj THEN obj[key] ELSE Undef

\* String.prototype.includes on word sequences
Includes(msg, needle) ==
  \E i \in 0..(Len(msg) - Len(needle)) :
    \A j \in 1..Len(needle) : msg[i + j] = needle[j]

\* parseFloat: numbers pass through, strings are parsed by their numeric
\* prefix, everything else is NaN
NumericPrefix ==
  [s \in {"12", "12abc", "-5", "abc", ""} |->
     CASE s = "12" -> Num(12)
       [] s = "12abc" -> Num(12)
       [] s = "-5" -> Num(-5)
       [] OTHER -> NaN]

parseFloat(v) ==
  CASE v.t = "num" -> v
    [] v.t = "str" -> IF v.s \in DOMAIN NumericPrefix THEN NumericPrefix[v.s] ELSE NaN
    [] OTHER -> NaN

\* new Date(x): a number is a timestamp, a string is parsed
\* the date strings the model parses, with their timestamp (before the clock starts)
DateStrings == [s \in {"2024-03-01"} |-> -1]

NewDate(v) ==
  CASE v.t = "num" -> DateAt(v.n)
    [] v.t = "str" -> IF v.s \in DOMAIN DateStrings THEN DateAt(DateStrings[v.s]) ELSE InvalidDate
    [] OTHER -> InvalidDate

----------------------------------------------------------------------------
\* The subprocess's standard output: a sequence of chunks, each one lexical
\* piece of a JSON text.  JSON.parse is modelled on the concatenation.

LBrace == [tok |-> "{"]
RBrace == [tok |-> "}"]
NullTok == [tok |-> "null"]
Text(w) == [tok |-> "text", w |-> w]
Field(k, v) == [tok |-> "field", key |-> k, val |-> v]

Obj(f) == [t |-> "obj", f |-> f]

\* the object built from a sequence of members; a repeated key keeps its
\* last value, as JSON.parse does
ObjOf(fields) ==
  [k \in {fields[i].key : i \in DOMAIN fields} |->
     fields[CHOOSE i \in DOMAIN fields :
              /\ fields[i].key = k
              /\ \A j \in DOMAIN fields : fields[j].key = k => j <= i].val]

ParseOk(v) == [ok |-> TRUE, value |-> v]
ParseError(m) == [ok |-> FALSE, message |-> m]

JSONParse(toks) ==
  IF toks = <<>> THEN ParseError(<<"Unexpected", "end", "of", "JSON", "input">>)
  ELSE IF toks = <<NullTok>> THEN ParseOk(Null)
  ELSE IF toks[1] # LBrace THEN ParseError(<<"Unexpected", "token">>)
  ELSE IF \E i \in 2..Len(toks) : toks[i].tok \notin {"field", "}"}
         THEN ParseError(<<"Unexpected", "token">>)
  ELSE IF \A i \in 2..Len(toks) : toks[i].tok = "field"
         THEN ParseError(<<"Unexpected", "end", "of", "JSON", "input">>)
  ELSE IF \E i \in 2..(Len(toks) - 1) : toks[i].tok = "}"
         THEN ParseError(<<"Unexpected", "token">>)
  ELSE ParseOk(Obj(ObjOf(SubSeq(toks, 2, Len(toks) - 1))))

\* What the extraction tool may write to stdout
FieldLists ==
  { <<>>,
    <<Field("merchant", Str("Cafe X"))>>,
    <<Field("total", Num(42)), Field("merchant", Str("Cafe X"))>>,
    <<Field("total", Num(42)), Field("amount_paid", Num(30))>>,
    <<Field("total", Num(0))>>,
    <<Field("total", Num(-5))>>,
    <<Field("total", Str("abc"))>>,
    <<Field("total", Str(""))>>,
    <<Field("amount_paid", Str("12"))>>,
    <<Field("total", Num(42)), Field("date", Str("2024-03-01")), Field("category", Str("groceries"))>>,
    <<Field("total", Num(42)), Field("date", Str("yesterday")), Field("category", Str("bogus_category"))>> }

Outputs ==
  { <<>>, <<Text("Traceback")>>, <<NullTok>>, <<LBrace, Field("total", Num(42))>> }
  \cup { <<LBrace>> \o fl \o <<RBrace>> : fl \in FieldLists }

\* What it may write to stderr (one chunk at most)
StderrOutputs ==
  { <<>>, <<"model", "unavailable">>, <<"Python", "script", "failed">> }

\* The runs of the extraction tool: what it writes to stdout and to stderr.
\* Every output occurs with a silent stderr; a diagnostic occurs with no
\* output, with a malformed one and with a complete one.
Runs ==
  { [out |-> o, err |-> <<>>] : o \in Outputs }
  \cup { [out |-> o, err |-> e] :
           o \in { <<>>,
                   <<LBrace, Field("total", Num(42))>>,
                   <<LBrace, Field("total", Num(42)), Field("merchant", Str("Cafe X")), RBrace>> },
           e \in StderrOutputs \ {<<>>} }

\* Exit codes of a process that was started
ExitCodes == {0, 1}
\* the codes 'close' reports after a failed spawn (-errno: ENOENT, EACCES)
SpawnFailedCodes == {-2, -13}

----------------------------------------------------------------------------
\* Upload middleware (multer) and its error handler

\* limits.fileSize: 10 * 1024 * 1024
FileSizeLimit == 10 * 1024 * 1024
\* limits.files
FilesLimit == 1

allowedTypes ==
  [f \in {"receipt", "statement"} |->
     IF f = "receipt"
       THEN {"image/jpeg", "image/png", "image/jpg", "application/pdf"}
       ELSE {"application/pdf"}]

\* fileFilter: TRUE when the file is accepted
fileFilter(file) ==
  LET fieldAllowedTypes ==
        IF file.fieldname \in DOMAIN allowedTypes THEN allowedTypes[file.fieldname] ELSE {}
  IN file.mimetype \in fieldAllowedTypes

FilePart(mime, size, name) ==
  [fieldname |-> "receipt", mimetype |-> mime, size |-> size, originalname |-> name]

\* the file parts of a multipart request
PartLists ==
  { <<>>,
    <<FilePart("application/pdf", FileSizeLimit, "b.pdf")>>,
    <<FilePart("application/pdf", FileSizeLimit + 1, "b.pdf")>>,
    <<FilePart("text/plain", 1, "c.txt")>>,
    <<FilePart("image/jpeg", 1, "a.jpg"), FilePart("image/jpeg", 1, "a.jpg")>> }

\* req.body.userId; "" stands for a missing field
UserIds == {"", "not-an-id", "u1"}
\* mongoose.Types.ObjectId.isValid
ObjectIdIsValid(u) == u \in {"u1", "u2"}

NoError == [kind |-> "none"]
Err(name, message, errors) ==
  [kind |-> "error", multer |-> FALSE, code |-> "", name |-> name,
   message |-> message, errors |-> errors]
MulterError(code) ==
  [kind |-> "error", multer |-> TRUE, code |-> code, name |-> "MulterError",
   message |-> <<code>>, errors |-> {}]

\* filename: fieldname + '-' + Date.now() + '-' + random + extension; r is
\* the generated suffix
uploadFilename(r, file) == <<file.fieldname, r>>
\* destination: uploads/temp for a receipt
uploadPath(r, file) == <<"uploads", "temp">> \o uploadFilename(r, file)

\* uploadMiddleware.single('receipt'): the error passed to next(), and
\* req.file (Undef when no file was sent or the upload was aborted).
\* An aborted upload removes what it had written.
uploadMiddleware(r, parts) ==
  IF parts = <<>> THEN [error |-> NoError, file |-> Undef]
  ELSE IF ~fileFilter(parts[1])
    THEN [error |-> Err("Error", <<"Invalid", "file", "type", "for", parts[1].fieldname>>, {}),
          file |-> Undef]
  ELSE IF parts[1].size > FileSizeLimit
    THEN [error |-> MulterError("LIMIT_FILE_SIZE"), file |-> Undef]
  ELSE IF Len(parts) > FilesLimit
    THEN [error |-> MulterError("LIMIT_FILE_COUNT"), file |-> Undef]
  ELSE [error |-> NoError,
        file |-> [t |-> "file",
                  path |-> uploadPath(r, parts[1]),
                  filename |-> uploadFilename(r, parts[1]),
                  originalname |-> parts[1].originalname,
                  size |-> parts[1].size,
                  mimetype |-> parts[1].mimetype]]

\* res.status(status).json({success, message, error, errors, data})
Response(status, success, message, error, errors, data) ==
  [status |-> status, success |-> success, message |-> message,
   error |-> error, errors |-> errors, data |-> data]

\* handleUploadError: the response it sends, or Undef when it calls next(error)
handleUploadError(error) ==
  IF error.multer /\ error.code = "LIMIT_FILE_SIZE"
    THEN Response(400, FALSE, "File size too large. Maximum size is 10MB.", <<>>, {}, Undef)
  ELSE IF error.multer /\ error.code = "LIMIT_FILE_COUNT"
    THEN Response(400, FALSE, "Too many files. Only one file is allowed.", <<>>, {}, Undef)
  ELSE IF Includes(error.message, <<"Invalid", "file", "type">>)
    THEN Response(400, FALSE, "Invalid file type", error.message, {}, Undef)
  ELSE Undef

----------------------------------------------------------------------------
\* Transaction normalizer and the Transaction schema

\* constants/transactionSubclasses: the expense categories
expenseSubclasses == {Str("groceries"), Str("food"), Str("other_expenses")}

\* amountOf as if total came first and amount_paid were the fallback
amountOfTotalFirst(ocrData) ==
  parseFloat(JsOr(JsOr(Get(ocrData, "total"), Get(ocrData, "amount_paid")), Num(0)))

\* line 51: amount
amountOf(ocrData) ==
  parseFloat(JsOr(JsOr(Get(ocrData, "amount_paid"), Get(ocrData, "total")), Num(0)))

\* dateOf as if the extracted date were ignored
dateOfAlwaysNow(ocrData, tNow) == NewDate(Num(tNow))

\* line 53: date; tNow is the reading of Date.now()
dateOf(ocrData, tNow) == NewDate(JsOr(Get(ocrData, "date"), Num(tNow)))

\* subclassOf as if the category were not looked up in the enumeration
subclassOfUnchecked(ocrData) ==
  IF Truthy(Get(ocrData, "category"))
    THEN Get(ocrData, "category")
    ELSE Str("other_expenses")

\* lines 58-62: subclass
subclassOf(ocrData) ==
  IF Truthy(Get(ocrData, "category")) /\ Get(ocrData, "category") \in expenseSubclasses
    THEN Get(ocrData, "category")
    ELSE Str("other_expenses")

\* convertOCRToTransaction(ocrData, userId); tNow and tExtracted are the
\* readings of Date.now() and new Date() it takes
convertOCRToTransaction(ocrData, userId, tNow, tExtracted) ==
  [userId |-> userId,
   type |-> "expense",
   amount |-> amountOf(ocrData),
   description |-> <<"Receipt", "from", JsOr(Get(ocrData, "merchant"), Str("Unknown Merchant"))>>,
   date |-> dateOf(ocrData, tNow),
   paymentMethod |-> "other",
   subclass |-> subclassOf(ocrData),
   receiptData |-> [merchant |-> Get(ocrData, "merchant"),
                    items |-> JsOr(Get(ocrData, "items"), Arr(<<>>)),
                    ocrConfidence |-> JsOr(Get(ocrData, "category_source"), Str("unknown")),
                    extractedAt |-> DateAt(tExtracted)]]

\* withFileMetadata as if the stored name were recorded in place of the path
withFileMetadataNameAsPath(transactionData, file, tProcessed) ==
  [transactionData EXCEPT !.receiptData =
     [merchant |-> @.merchant,
      items |-> @.items,
      ocrConfidence |-> @.ocrConfidence,
      extractedAt |-> @.extractedAt,
      originalFilename |-> file.originalname,
      uploadedFilename |-> file.filename,
      fileSize |-> file.size,
      filePath |-> file.filename,
      processedAt |-> DateAt(tProcessed)]]

\* lines 118-125: the upload's metadata merged into receiptData
withFileMetadata(transactionData, file, tProcessed) ==
  [transactionData EXCEPT !.receiptData =
     [merchant |-> @.merchant,
      items |-> @.items,
      ocrConfidence |-> @.ocrConfidence,
      extractedAt |-> @.extractedAt,
      originalFilename |-> file.originalname,
      uploadedFilename |-> file.filename,
      fileSize |-> file.size,
      filePath |-> file.path,
      processedAt |-> DateAt(tProcessed)]]

\* models/Transaction: the paths the schema rejects (amount is a positive
\* number, date is a valid date, an expense's category is an expense category)
schemaErrors(doc) ==
  (IF doc.amount.t = "num" /\ doc.amount.n > 0 THEN {} ELSE {"amount"})
  \cup (IF doc.date.t = "date" THEN {} ELSE {"date"})
  \cup (IF doc.type = "expense" /\ doc.subclass \in expenseSubclasses THEN {} ELSE {"subclass"})

----------------------------------------------------------------------------
\* State

VARIABLES
  pc,         \* pc[r]: where request r is in the pipeline
  req,        \* req[r]: [userId, parts, file] (req.body.userId, the multipart file parts, req.file)
  files,      \* the paths that exist on storage
  store,      \* the Transaction collection: the saved documents, oldest first
  idCounter,  \* the ObjectId counter of the process
  proc,       \* proc[r]: the python subprocess of r and the promise of runOCRScript
  doc,        \* doc[r]: the Transaction document r constructed (Undef before)
  saveP,      \* saveP[r]: the promise of transaction.save()
  responses,  \* responses[r]: the responses sent for r, in order
  launches,   \* launches[r]: how many times spawn was called for r
  saves,      \* saves[r]: how many times save was called for r
  cleanup,    \* cleanup[r]: "none", "deleted" (unlinkSync returned) or "failed" (it threw)
  disconnected, \* disconnected[r]: the client of r closed the connection
  normIn,     \* the arguments of convertOCRToTransaction when it is exercised alone
  normOut,    \* the values its invocations on normIn returned, in order
  hist        \* the GET /history request in progress

vars == <<pc, req, files, store, idCounter, proc, doc, saveP, responses, launches, saves, cleanup,
          disconnected, normIn, normOut, hist>>

\* what the receipt pipeline leaves alone
aside == <<normIn, normOut, hist>>

Pending == [state |-> "pending", value |-> Undef, error |-> NoError]
Resolved(v) == [state |-> "resolved", value |-> v, error |-> NoError]
Rejected(e) == [state |-> "rejected", value |-> Undef, error |-> e]

\* Settle as if a later resolve or reject replaced the outcome
SettleLastWins(p, outcome) == outcome

\* resolve / reject of a promise: only the first call has an effect
Settle(p, outcome) == IF p.state = "pending" THEN outcome ELSE p

NoProc ==
  [phase |-> "none", out |-> <<>>, errq |-> <<>>, stdout |-> <<>>, stderr |-> <<>>,
   errored |-> FALSE, closed |-> FALSE, code |-> 0, promise |-> Pending]

NoInput == [given |-> FALSE]
NoHistory == [phase |-> "idle"]

\* nothing received yet: no request of R has arrived, storage and store are empty
PipelineInit(R) ==
  /\ pc = [r \in R |-> "idle"]
  /\ req = [r \in R |-> [userId |-> "", parts |-> <<>>, file |-> Undef]]
  /\ files = {}
  /\ store = <<>>
  /\ idCounter = 0
  /\ proc = [r \in R |-> NoProc]
  /\ doc = [r \in R |-> Undef]
  /\ saveP = [r \in R |-> Pending]
  /\ responses = [r \in R |-> <<>>]
  /\ launches = [r \in R |-> 0]
  /\ saves = [r \in R |-> 0]
  /\ cleanup = [r \in R |-> "none"]
  /\ disconnected = [r \in R |-> FALSE]

Init ==
  /\ PipelineInit(Reqs)
  /\ normIn = NoInput
  /\ normOut = <<>>
  /\ hist = NoHistory

\* Respond as if the handler went on after answering (a missing return)
RespondAndGoOn(r, response) ==
  /\ responses' = [responses EXCEPT ![r] = Append(@, response)]
  /\ pc' = pc

\* res.status(..).json(..) for r, which ends the handler run
Respond(r, response) ==
  /\ responses' = [responses EXCEPT ![r] = Append(@, response)]
  /\ pc' = [pc EXCEPT ![r] = "done"]

----------------------------------------------------------------------------
\* POST /process: uploadMiddleware.single('receipt'), then the handler or,
\* on an upload error, handleUploadError

UploadWith(r, userIds, partLists, suffixes) ==
  /\ pc[r] = "idle"
  /\ \E userId \in userIds, parts \in partLists, suffix \in suffixes :
       LET up == uploadMiddleware(suffix, parts) IN
         /\ req' = [req EXCEPT ![r] = [userId |-> userId, parts |-> parts, file |-> up.file]]
         /\ IF up.error = NoError
              THEN /\ files' = IF up.file = Undef THEN files ELSE files \cup {up.file.path}
                   /\ pc' = [pc EXCEPT ![r] = "uploaded"]
                   /\ UNCHANGED responses
              ELSE /\ files' = files
                   /\ Respond(r, handleUploadError(up.error))
  /\ UNCHANGED <<store, idCounter, proc, doc, saveP, launches, saves, cleanup, disconnected, aside>>

\* the generated name is taken to be unique: the suffix of request r is r
Upload(r) == UploadWith(r, UserIds, PartLists, {r})

----------------------------------------------------------------------------
\* The catch block of processReceiptAndCreateTransaction (lines 155-191)

\* errorResponse as if a ValidationError were not told apart
errorResponseWithoutValidationCase(error) ==
  IF Includes(error.message, <<"Python", "script", "failed">>)
    THEN Response(500, FALSE, "Receipt OCR processing failed", error.message, {}, Undef)
  ELSE Response(500, FALSE, "Internal server error while processing receipt", error.message, {}, Undef)

\* lines 167-190: the response for a caught error
errorResponse(error) ==
  IF Includes(error.message, <<"Python", "script", "failed">>)
    THEN Response(500, FALSE, "Receipt OCR processing failed", error.message, {}, Undef)
  ELSE IF error.name = "ValidationError"
    THEN Response(400, FALSE, "Failed to create transaction from receipt data", <<>>, error.errors, Undef)
  ELSE Response(500, FALSE, "Internal server error while processing receipt", error.message, {}, Undef)

\* lines 159-165: unlinkSync(req.file.path) returns when the file exists and
\* the file system allows it (fsAllows), and throws otherwise
unlinkReturns(r, fsAllows) ==
  req[r].file # Undef /\ req[r].file.path \in files /\ fsAllows

\* Catch as if the cleanup emptied the temporary directory
CatchCleansDirectory(r, error) ==
  /\ files' = {}
  /\ cleanup' = [cleanup EXCEPT ![r] = IF req[r].file = Undef THEN "none" ELSE "deleted"]
  /\ Respond(r, errorResponse(error))

\* Catch as if the catch block only answered, without the cleanup
CatchWithoutCleanup(r, error) ==
  /\ files' = files
  /\ cleanup' = cleanup
  /\ Respond(r, errorResponse(error))

\* Catch as if an error thrown by unlinkSync replaced the caught error
CatchEscalatesUnlinkError(r, error) ==
  \E fsAllows \in BOOLEAN :
    /\ files' = IF unlinkReturns(r, fsAllows) THEN files \ {req[r].file.path} ELSE files
    /\ cleanup' = [cleanup EXCEPT ![r] =
                     IF req[r].file = Undef THEN "none"
                     ELSE IF unlinkReturns(r, fsAllows) THEN "deleted" ELSE "failed"]
    /\ Respond(r, IF req[r].file = Undef \/ unlinkReturns(r, fsAllows)
                    THEN errorResponse(error)
                    ELSE errorResponse(Err("Error", <<"EPERM", "operation", "not", "permitted">>, {})))

\* lines 155-191: the catch block
Catch(r, error) ==
  \E fsAllows \in BOOLEAN :
    /\ files' = IF unlinkReturns(r, fsAllows) THEN files \ {req[r].file.path} ELSE files
    /\ cleanup' = [cleanup EXCEPT ![r] =
                     IF req[r].file = Undef THEN "none"
                     ELSE IF unlinkReturns(r, fsAllows) THEN "deleted" ELSE "failed"]
    /\ Respond(r, errorResponse(error))

----------------------------------------------------------------------------
\* processReceiptAndCreateTransaction, lines 77-101: validation, then
\* runOCRScript spawns the subprocess (lines 9-12) and the handler awaits

ProcessWith(r, runs) ==
  /\ pc[r] = "uploaded"
  /\ IF req[r].userId = "" \/ ~ObjectIdIsValid(req[r].userId)
       THEN /\ Respond(r, Response(400, FALSE, "Valid user ID is required", <<>>, {}, Undef))
            /\ UNCHANGED <<proc, launches>>
     ELSE IF req[r].file = Undef
       THEN /\ Respond(r, Response(400, FALSE, "No receipt file uploaded", <<>>, {}, Undef))
            /\ UNCHANGED <<proc, launches>>
     ELSE /\ launches' = [launches EXCEPT ![r] = @ + 1]
          /\ \/ \E run \in runs :
                  proc' = [proc EXCEPT ![r] =
                             [NoProc EXCEPT !.phase = "running", !.out = run.out, !.errq = run.err]]
             \/ proc' = [proc EXCEPT ![r] = [NoProc EXCEPT !.phase = "spawn_failed"]]
          /\ pc' = [pc EXCEPT ![r] = "extracting"]
          /\ UNCHANGED responses
  /\ UNCHANGED <<req, files, store, idCounter, doc, saveP, saves, cleanup, disconnected, aside>>

Process(r) == ProcessWith(r, Runs)

\* lines 17-19: stdout 'data'
StdoutData(r) ==
  /\ proc[r].phase = "running"
  /\ ~proc[r].closed
  /\ proc[r].out # <<>>
  /\ proc' = [proc EXCEPT ![r].stdout = Append(@, Head(proc[r].out)),
                          ![r].out = Tail(@)]
  /\ UNCHANGED <<pc, req, files, store, idCounter, doc, saveP, responses, launches, saves, cleanup,
                 disconnected, aside>>

\* lines 21-23: stderr 'data'
StderrData(r) ==
  /\ proc[r].phase = "running"
  /\ ~proc[r].closed
  /\ proc[r].errq # <<>>
  /\ proc' = [proc EXCEPT ![r].stderr = @ \o proc[r].errq,
                          ![r].errq = <<>>]
  /\ UNCHANGED <<pc, req, files, store, idCounter, doc, saveP, responses, launches, saves, cleanup,
                 disconnected, aside>>

\* closeOutcome as if stdout were parsed before the exit code is looked at
closeOutcomeParseFirst(code, stdout, stderr) ==
  IF JSONParse(stdout).ok
    THEN Resolved(JSONParse(stdout).value)
  ELSE IF code # 0
    THEN Rejected(Err("Error",
                      <<"Python", "OCR", "script", "failed", "with", "code", ToString(code), ":">> \o stderr,
                      {}))
  ELSE Rejected(Err("Error",
                    <<"Failed", "to", "parse", "OCR", "output", ":">> \o JSONParse(stdout).message,
                    {}))

\* lines 25-38: what the 'close' handler passes to reject or resolve
closeOutcome(code, stdout, stderr) ==
  IF code # 0
    THEN Rejected(Err("Error",
                      <<"Python", "OCR", "script", "failed", "with", "code", ToString(code), ":">> \o stderr,
                      {}))
  ELSE IF JSONParse(stdout).ok
    THEN Resolved(JSONParse(stdout).value)
  ELSE Rejected(Err("Error",
                    <<"Failed", "to", "parse", "OCR", "output", ":">> \o JSONParse(stdout).message,
                    {}))

\* 'close' fires once the process has ended and its streams are drained; after
\* a failed spawn it follows 'error' with a negative code
CloseEvent(r) ==
  /\ ~proc[r].closed
  /\ \E code \in ExitCodes \cup SpawnFailedCodes :
       /\ \/ /\ proc[r].phase = "running"
             /\ proc[r].out = <<>> /\ proc[r].errq = <<>>
             /\ code \in ExitCodes
          \/ /\ proc[r].phase = "spawn_failed"
             /\ proc[r].errored
             /\ code \in SpawnFailedCodes
       /\ proc' = [proc EXCEPT ![r].closed = TRUE,
                               ![r].code = code,
                               ![r].promise = Settle(@, closeOutcome(code, proc[r].stdout, proc[r].stderr))]
  /\ UNCHANGED <<pc, req, files, store, idCounter, doc, saveP, responses, launches, saves, cleanup,
                 disconnected, aside>>

\* lines 40-42: what the 'error' handler passes to reject
errorOutcome(spawnError) ==
  Rejected(Err("Error",
               <<"Failed", "to", "start", "Python", "OCR", "process", ":">> \o spawnError,
               {}))

\* 'error' fires when the process could not be spawned
ErrorEvent(r) ==
  /\ proc[r].phase = "spawn_failed"
  /\ ~proc[r].errored
  /\ proc' = [proc EXCEPT ![r].errored = TRUE,
                          ![r].promise = Settle(@, errorOutcome(<<"spawn", "python", "ENOENT">>))]
  /\ UNCHANGED <<pc, req, files, store, idCounter, doc, saveP, responses, launches, saves, cleanup,
                 disconnected, aside>>

----------------------------------------------------------------------------
\* lines 101-129: the handler resumes when runOCRScript settles

\* amountMissing as if the amount check let every result through
amountMissingNever(ocrResult) == FALSE

\* line 106: !ocrResult.amount_paid && !ocrResult.total
amountMissing(ocrResult) ==
  ~Truthy(Get(ocrResult.f, "amount_paid")) /\ ~Truthy(Get(ocrResult.f, "total"))

AfterOCR(r) ==
  /\ pc[r] = "extracting"
  /\ proc[r].promise.state # "pending"
  /\ IF proc[r].promise.state = "rejected"
       THEN /\ Catch(r, proc[r].promise.error)
            /\ UNCHANGED <<idCounter, doc, saves>>
     ELSE IF proc[r].promise.value.t # "obj"
       \* reading a property of null throws a TypeError
       THEN /\ Catch(r, Err("TypeError", <<"Cannot", "read", "properties", "of", "null">>, {}))
            /\ UNCHANGED <<idCounter, doc, saves>>
     ELSE IF amountMissing(proc[r].promise.value)
       THEN /\ Respond(r, Response(400, FALSE, "Could not extract amount from receipt", <<>>, {},
                                   proc[r].promise.value))
            /\ UNCHANGED <<files, cleanup, idCounter, doc, saves>>
     ELSE \E tNow \in Times, tExtracted \in Times, tProcessed \in Times :
            /\ tNow <= tExtracted /\ tExtracted <= tProcessed
            /\ idCounter' = idCounter + 1
            /\ doc' = [doc EXCEPT ![r] =
                         [_id |-> idCounter + 1,
                          data |-> withFileMetadata(
                                     convertOCRToTransaction(proc[r].promise.value.f, req[r].userId,
                                                             tNow, tExtracted),
                                     req[r].file, tProcessed)]]
            /\ saves' = [saves EXCEPT ![r] = @ + 1]
            /\ pc' = [pc EXCEPT ![r] = "saving"]
            /\ UNCHANGED <<files, cleanup, responses>>
  /\ UNCHANGED <<req, store, proc, saveP, launches, disconnected, aside>>

\* insert as if a receipt of the same user, file name and amount replaced
\* the document already stored for it
insertUnlessDuplicate(collection, d) ==
  IF \E i \in DOMAIN collection :
       /\ collection[i].data.userId = d.data.userId
       /\ collection[i].data.amount = d.data.amount
       /\ collection[i].data.receiptData.originalFilename = d.data.receiptData.originalFilename
    THEN collection
    ELSE Append(collection, d)

\* the store's create: the document is added to the collection
insert(collection, d) == Append(collection, d)

\* transaction.save(): the schema validates the document, then the store
\* inserts it or fails
SaveSettles(r) ==
  /\ pc[r] = "saving"
  /\ saveP[r].state = "pending"
  /\ IF schemaErrors(doc[r].data) # {}
       THEN /\ saveP' = [saveP EXCEPT ![r] =
                           Rejected(Err("ValidationError", <<"Transaction", "validation", "failed">>,
                                        schemaErrors(doc[r].data)))]
            /\ store' = store
       ELSE \/ /\ store' = insert(store, doc[r])
               /\ saveP' = [saveP EXCEPT ![r] = Resolved(doc[r])]
            \/ /\ store' = store
               /\ saveP' = [saveP EXCEPT ![r] =
                              Rejected(Err("MongoNetworkError", <<"connection", "closed">>, {}))]
  /\ UNCHANGED <<pc, req, files, idCounter, proc, doc, responses, launches, saves, cleanup,
                 disconnected, aside>>

\* lines 129-153: the handler resumes when save settles
AfterSave(r) ==
  /\ pc[r] = "saving"
  /\ saveP[r].state # "pending"
  /\ IF saveP[r].state = "rejected"
       THEN Catch(r, saveP[r].error)
       ELSE /\ Respond(r, Response(201, TRUE,
                                   "Receipt successfully processed and expense transaction created",
                                   <<>>, {}, saveP[r].value))
            /\ UNCHANGED <<files, cleanup>>
  /\ UNCHANGED <<req, store, idCounter, proc, doc, saveP, launches, saves, disconnected, aside>>

\* The client of r closes the connection while r is being handled.  The
\* handler registers no listener for it: its run goes on, and a response
\* written afterwards is dropped by the socket without an error.
Disconnect(r) ==
  /\ pc[r] \notin {"idle", "done"}
  /\ ~disconnected[r]
  /\ disconnected' = [disconnected EXCEPT ![r] = TRUE]
  /\ UNCHANGED <<pc, req, files, store, idCounter, proc, doc, saveP, responses, launches, saves,
                 cleanup, aside>>

Next ==
  \E r \in Reqs :
    \/ Upload(r)
    \/ Process(r)
    \/ StdoutData(r)
    \/ StderrData(r)
    \/ CloseEvent(r)
    \/ ErrorEvent(r)
    \/ AfterOCR(r)
    \/ SaveSettles(r)
    \/ AfterSave(r)
    \/ Disconnect(r)

Spec == Init /\ [][Next]_vars

\* The event loop runs every ready callback, the store answers or times out;
\* nothing makes the subprocess exit
FairSpec ==
  /\ Spec
  /\ \A r \in Reqs :
       /\ WF_vars(Process(r))
       /\ WF_vars(ErrorEvent(r))
       /\ WF_vars(AfterOCR(r))
       /\ WF_vars(SaveSettles(r))
       /\ WF_vars(AfterSave(r))

----------------------------------------------------------------------------
\* Concurrent ingestions: two flows of one user with a valid file, whose
\* generated name suffixes (Date.now() + '-' + random) are drawn from a small
\* range, so that the two flows may draw the same name.

\* Number of distinct name suffixes
MaxSuffix == 2

\* the two flows
Flows == {1, 2}
Suffixes == 1..MaxSuffix

ConcUserIds == {"u1"}
ConcPartLists == { <<FilePart("application/pdf", FileSizeLimit, "b.pdf")>> }
ConcRuns ==
  { [out |-> <<LBrace, Field("total", Num(42)), RBrace>>, err |-> <<>>],
    [out |-> <<>>, err |-> <<"model", "unavailable">>] }

ConcInit ==
  /\ PipelineInit(Flows)
  /\ normIn = NoInput
  /\ normOut = <<>>
  /\ hist = NoHistory

ConcNext ==
  \E r \in Flows :
    \/ UploadWith(r, ConcUserIds, ConcPartLists, Suffixes)
    \/ ProcessWith(r, ConcRuns)
    \/ StdoutData(r)
    \/ StderrData(r)
    \/ CloseEvent(r)
    \/ ErrorEvent(r)
    \/ AfterOCR(r)
    \/ SaveSettles(r)
    \/ AfterSave(r)

ConcSpec == ConcInit /\ [][ConcNext]_vars

\* Every ready callback runs and the store answers; the subprocess of flow 1
\* exits, the subprocess of the other flow may hang
ConcFairSpec ==
  /\ ConcSpec
  /\ \A r \in Flows :
       /\ WF_vars(ProcessWith(r, ConcRuns))
       /\ WF_vars(ErrorEvent(r))
       /\ WF_vars(AfterOCR(r))
       /\ WF_vars(SaveSettles(r))
       /\ WF_vars(AfterSave(r))
  /\ WF_vars(StdoutData(1))
  /\ WF_vars(StderrData(1))
  /\ WF_vars(CloseEvent(1))

----------------------------------------------------------------------------
\* The normalizer alone: convertOCRToTransaction is called on one extraction
\* result, several times, at the clock readings of each call.

\* Number of invocations on the same arguments
MaxCalls == 2

TotalValues == {Undef, Num(0), Num(42), Num(-5), Str("abc")}
AmountPaidValues == {Undef, Num(0), Num(30), Str("12")}
DateValues == {Undef, Str(""), Str("2024-03-01"), Str("yesterday")}
CategoryValues == {Undef, Str(""), Str("groceries"), Str("bogus_category")}
MerchantValues == {Undef, Str("Cafe X")}

\* the extraction result with these members; an Undef member is absent
OcrData(total, amountPaid, date, category, merchant) ==
  LET members == [k \in {"total", "amount_paid", "date", "category", "merchant"} |->
                    CASE k = "total" -> total
                      [] k = "amount_paid" -> amountPaid
                      [] k = "date" -> date
                      [] k = "category" -> category
                      [] OTHER -> merchant]
  IN [k \in {k \in DOMAIN members : members[k] # Undef} |-> members[k]]

NormInit ==
  /\ PipelineInit(Reqs)
  /\ hist = NoHistory
  /\ normOut = <<>>
  /\ \E total \in TotalValues, amountPaid \in AmountPaidValues, date \in DateValues,
        category \in CategoryValues, merchant \in MerchantValues :
       normIn = [given |-> TRUE,
                 ocrData |-> OcrData(total, amountPaid, date, category, merchant),
                 userId |-> "u1"]

\* one call of convertOCRToTransaction(ocrData, userId); the clock does not
\* run backwards between calls
Normalize ==
  /\ normIn.given
  /\ Len(normOut) < MaxCalls
  /\ \E tNow \in Times, tExtracted \in Times :
       /\ tNow <= tExtracted
       /\ normOut # <<>> => normOut[Len(normOut)].tExtracted <= tNow
       /\ normOut' = Append(normOut,
                            [tNow |-> tNow,
                             tExtracted |-> tExtracted,
                             result |-> convertOCRToTransaction(normIn.ocrData, normIn.userId,
                                                                tNow, tExtracted)])
  /\ UNCHANGED <<pc, req, files, store, idCounter, proc, doc, saveP, responses, launches, saves,
                 cleanup, disconnected, normIn, hist>>

NormNext == Normalize

NormSpec == NormInit /\ [][NormNext]_vars

----------------------------------------------------------------------------
\* GET /history: getReceiptHistory reads the store while the transaction
\* endpoints create and delete documents.  The store is followed until the
\* request is answered.

\* Documents ever created
MaxDocs == 3

\* the documents the endpoints create: of the asking user with and without
\* receiptData, of another user with receiptData
Created == {[userId |-> "u1", receipt |-> TRUE],
            [userId |-> "u1", receipt |-> FALSE],
            [userId |-> "u2", receipt |-> TRUE]}

\* parseInt of a query value: a number passes through, a decimal string is
\* read, everything else is NaN
DecimalStrings == [s \in {"1", "2"} |-> IF s = "1" THEN 1 ELSE 2]

parseInt(v) ==
  CASE v.t = "num" -> v
    [] v.t = "str" -> IF v.s \in DOMAIN DecimalStrings THEN Num(DecimalStrings[v.s]) ELSE NaN
    [] OTHER -> NaN

\* the values of the query parameters page and limit: absent, or a decimal string
PageValues == {Undef, Str("2")}
LimitValues == {Undef, Str("1"), Str("2")}

\* const { userId, page = 1, limit = 10 } = req.query
pageOf(query) == IF query.page = Undef THEN Num(1) ELSE query.page
limitOf(query) == IF query.limit = Undef THEN Num(10) ELSE query.limit

\* skip as if pages were counted from 0
skipFromPageZero(page, limit) == parseInt(page).n * parseInt(limit).n

\* line 208: skip
skip(page, limit) == (parseInt(page).n - 1) * parseInt(limit).n

\* Math.ceil(a / b) for a >= 0, b > 0
ceil(a, b) == (a + b - 1) \div b

\* a stored document: the schema stamps createdAt when the document is saved
newDocument(id, tCreated, userId, receipt) ==
  [_id |-> id,
   createdAt |-> tCreated,
   data |-> IF receipt
              THEN [userId |-> userId, receiptData |-> [merchant |-> Undef]]
              ELSE [userId |-> userId]]

\* the filter { userId, receiptData: { $exists: true } }, in store order
matching(collection, userId) ==
  SelectSeq(collection,
            LAMBDA d : d.data.userId = userId /\ "receiptData" \in DOMAIN d.data)

\* sort({ createdAt: -1 }): every order of the documents with createdAt
\* descending; documents of equal createdAt come in any order
sortedByCreatedAtDesc(docs) ==
  {o \in {[i \in DOMAIN docs |-> docs[f[i]]] : f \in Permutations(DOMAIN docs)} :
     \A i \in DOMAIN o, j \in DOMAIN o : i < j => o[i].createdAt >= o[j].createdAt}

\* .skip(n).limit(m) on a sorted result
slice(docs, n, m) ==
  SubSeq(docs, n + 1, IF n + m < Len(docs) THEN n + m ELSE Len(docs))

HistoryResponse(status, success, message, data, pagination, error) ==
  [status |-> status, success |-> success, message |-> message,
   data |-> data, pagination |-> pagination, error |-> error]

HistInit ==
  /\ PipelineInit(Reqs)
  /\ normIn = NoInput
  /\ normOut = <<>>
  /\ hist = NoHistory

\* transactionController.createTransaction, or a save of the receipt pipeline
CreateTransaction ==
  /\ hist.phase # "done"
  /\ idCounter < MaxDocs
  /\ \E d \in Created, tCreated \in Times :
       /\ \A i \in DOMAIN store : store[i].createdAt <= tCreated
       /\ store' = Append(store, newDocument(idCounter + 1, tCreated, d.userId, d.receipt))
  /\ idCounter' = idCounter + 1
  /\ UNCHANGED <<pc, req, files, proc, doc, saveP, responses, launches, saves, cleanup,
                 disconnected, normIn, normOut, hist>>

\* transactionController.deleteTransaction
DeleteTransaction ==
  /\ hist.phase # "done"
  /\ \E i \in DOMAIN store :
       store' = SubSeq(store, 1, i - 1) \o SubSeq(store, i + 1, Len(store))
  /\ UNCHANGED <<pc, req, files, idCounter, proc, doc, saveP, responses, launches, saves, cleanup,
                 disconnected, normIn, normOut, hist>>

\* lines 196-223: the handler up to the await; both queries are issued
HistoryRequest ==
  /\ hist.phase = "idle"
  /\ \E userId \in UserIds, page \in PageValues, limit \in LimitValues :
       LET query == [userId |-> userId, page |-> page, limit |-> limit] IN
         IF userId = "" \/ ~ObjectIdIsValid(userId)
           THEN hist' = [phase |-> "done",
                         query |-> query,
                         find |-> Pending,
                         count |-> Pending,
                         found |-> <<>>,
                         counted |-> <<>>,
                         response |-> HistoryResponse(400, FALSE,
                                                      "Valid user ID is required",
                                                      Undef, Undef, Undef)]
           ELSE hist' = [phase |-> "querying",
                         query |-> query,
                         find |-> Pending,
                         count |-> Pending,
                         found |-> <<>>,
                         counted |-> <<>>,
                         response |-> Undef]
  /\ UNCHANGED <<pc, req, files, store, idCounter, proc, doc, saveP, responses, launches, saves,
                 cleanup, disconnected, normIn, normOut>>

\* lines 212-218: Transaction.find(..).sort(..).skip(..).limit(..) answers;
\* found is what the filter matched when it ran
FindSettles ==
  /\ hist.phase = "querying"
  /\ hist.find.state = "pending"
  /\ \E sorted \in sortedByCreatedAtDesc(matching(store, hist.query.userId)) :
       hist' = [hist EXCEPT
                  !.find = Resolved(slice(sorted,
                                          skip(pageOf(hist.query), limitOf(hist.query)),
                                          parseInt(limitOf(hist.query)).n)),
                  !.found = matching(store, hist.query.userId)]
  /\ UNCHANGED <<pc, req, files, store, idCounter, proc, doc, saveP, responses, launches, saves,
                 cleanup, disconnected, normIn, normOut>>

\* lines 219-222: Transaction.countDocuments(..) answers
CountSettles ==
  /\ hist.phase = "querying"
  /\ hist.count.state = "pending"
  /\ hist' = [hist EXCEPT
                !.count = Resolved(Len(matching(store, hist.query.userId))),
                !.counted = matching(store, hist.query.userId)]
  /\ UNCHANGED <<pc, req, files, store, idCounter, proc, doc, saveP, responses, launches, saves,
                 cleanup, disconnected, normIn, normOut>>

\* a query fails (the database is unreachable)
QueryFails ==
  /\ hist.phase = "querying"
  /\ \/ /\ hist.find.state = "pending"
        /\ hist' = [hist EXCEPT !.find = Rejected(Err("MongoError", <<"connection", "lost">>, {}))]
     \/ /\ hist.count.state = "pending"
        /\ hist' = [hist EXCEPT !.count = Rejected(Err("MongoError", <<"connection", "lost">>, {}))]
  /\ UNCHANGED <<pc, req, files, store, idCounter, proc, doc, saveP, responses, launches, saves,
                 cleanup, disconnected, normIn, normOut>>

\* lines 211-247: Promise.all settles, the handler answers
HistoryRespond ==
  /\ hist.phase = "querying"
  /\ \/ /\ hist.find.state = "resolved"
        /\ hist.count.state = "resolved"
        /\ LET page == parseInt(pageOf(hist.query)).n
               limit == parseInt(limitOf(hist.query)).n
               totalCount == hist.count.value
               totalPages == ceil(totalCount, limit)
           IN hist' = [hist EXCEPT
                         !.phase = "done",
                         !.response =
                           HistoryResponse(200, TRUE,
                                           "Receipt history retrieved successfully",
                                           hist.find.value,
                                           [page |-> page,
                                            limit |-> limit,
                                            totalCount |-> totalCount,
                                            totalPages |-> totalPages,
                                            hasNext |-> page < totalPages,
                                            hasPrev |-> page > 1],
                                           Undef)]
     \/ /\ hist.find.state = "rejected" \/ hist.count.state = "rejected"
        /\ LET error == IF hist.find.state = "rejected" THEN hist.find.error ELSE hist.count.error
           IN hist' = [hist EXCEPT
                         !.phase = "done",
                         !.response =
                           HistoryResponse(500, FALSE, "Internal server error",
                                           Undef, Undef, error.message)]
  /\ UNCHANGED <<pc, req, files, store, idCounter, proc, doc, saveP, responses, launches, saves,
                 cleanup, disconnected, normIn, normOut>>

HistNext ==
  \/ CreateTransaction
  \/ DeleteTransaction
  \/ HistoryRequest
  \/ FindSettles
  \/ CountSettles
  \/ QueryFails
  \/ HistoryRespond

HistSpec == HistInit /\ [][HistNext]_vars

----------------------------------------------------------------------------
\* Vocabulary of the properties

Done(r) == pc[r] = "done"
LastResponse(r) == responses[r][Len(responses[r])]
HasFile(r) == req[r].file # Undef
FileExists(r) == HasFile(r) /\ req[r].file.path \in files
\* the number of saved Transactions that request r created
TxnCount(r) ==
  Cardinality({i \in DOMAIN store : doc[r] # Undef /\ store[i]._id = doc[r]._id})
ValidUser(r) == req[r].userId # "" /\ ObjectIdIsValid(req[r].userId)
\* the subprocess of r was started and has exited with this code
Exited(r, code) == proc[r].phase = "running" /\ proc[r].closed /\ proc[r].code = code
\* it exited 0 and its stdout is a JSON object
ExtractedObject(r) ==
  /\ Exited(r, 0)
  /\ JSONParse(proc[r].stdout).ok
  /\ JSONParse(proc[r].stdout).value.t = "obj"
Payload(r) == JSONParse(proc[r].stdout).value.f

----------------------------------------------------------------------------
\* C1: when a request has terminated, either its Transaction is saved and
\* its uploaded file exists, or no Transaction is saved and no uploaded file
\* of the request exists.
C1_NoOrphanAtTermination ==
  \A r \in Reqs :
    Done(r) =>
      \/ TxnCount(r) = 1 /\ FileExists(r)
      \/ TxnCount(r) = 0 /\ ~FileExists(r)

\* C2: after a failure past the upload (launch failure, non-zero exit,
\* unparseable stdout, save rejected) the uploaded file is gone once the
\* response is sent, unless the deletion itself failed.
C2_FailureDeletesFile ==
  \A r \in Reqs :
    ( /\ Done(r)
      /\ HasFile(r)
      /\ proc[r].promise.state = "rejected" \/ saveP[r].state = "rejected"
      /\ cleanup[r] # "failed" )
    => req[r].file.path \notin files

C2_Witness ==
  \E r \in Reqs :
    /\ Done(r)
    /\ HasFile(r)
    /\ Exited(r, 0)
    /\ proc[r].promise.state = "rejected"
    /\ cleanup[r] = "deleted"
    /\ req[r].file.path \notin files

\* C3: exit 0 with a payload holding neither total nor amount_paid gives
\* a 400, no Transaction, and the uploaded file deleted.
C3_IncompleteDeletesFile ==
  \A r \in Reqs :
    ( /\ Done(r)
      /\ ExtractedObject(r)
      /\ "total" \notin DOMAIN Payload(r)
      /\ "amount_paid" \notin DOMAIN Payload(r) )
    => /\ LastResponse(r).status = 400
       /\ TxnCount(r) = 0
       /\ ~FileExists(r)

\* C4: valid userId, uploaded file, exit 0 with a payload holding a numeric
\* total, and a store that accepts the document: exactly one Transaction is
\* saved, of type expense, whose receiptData.filePath is the upload's path;
\* the response is 201 and the file is kept.
StoreAccepts(r) ==
  /\ schemaErrors(convertOCRToTransaction(Payload(r), req[r].userId, 0, 0)) = {}
  /\ saveP[r].state # "rejected"

C4_SuccessPersistsOnce ==
  \A r \in Reqs :
    ( /\ Done(r)
      /\ ValidUser(r)
      /\ HasFile(r)
      /\ ExtractedObject(r)
      /\ Get(Payload(r), "total").t = "num"
      /\ StoreAccepts(r) )
    => /\ TxnCount(r) = 1
       /\ saves[r] = 1
       /\ \A i \in DOMAIN store :
            store[i]._id = doc[r]._id =>
              /\ store[i].data.type = "expense"
              /\ store[i].data.receiptData.filePath = req[r].file.path
       /\ LastResponse(r).status = 201
       /\ FileExists(r)

C4_Witness ==
  \E r \in Reqs :
    /\ Done(r)
    /\ ExtractedObject(r)
    /\ Get(Payload(r), "total").t = "num"
    /\ LastResponse(r).status = 201
    /\ TxnCount(r) = 1
    /\ FileExists(r)

\* C5: an input error (missing or malformed userId, disallowed type, file
\* over the ceiling, more than one file) gives a 4xx, no Transaction, no
\* extraction launch, and no stored file of the request.
InputError(r) ==
  \/ ~ValidUser(r)
  \/ \E i \in DOMAIN req[r].parts : ~fileFilter(req[r].parts[i])
  \/ \E i \in DOMAIN req[r].parts : req[r].parts[i].size > FileSizeLimit
  \/ Len(req[r].parts) > FilesLimit

C5_InputErrorLeavesNothing ==
  \A r \in Reqs :
    (Done(r) /\ InputError(r)) =>
      /\ LastResponse(r).status \in 400..499
      /\ TxnCount(r) = 0
      /\ launches[r] = 0
      /\ \A i \in DOMAIN req[r].parts : uploadPath(r, req[r].parts[i]) \notin files

\* C6: runOCRScript yields one outcome per termination: a non-zero exit
\* rejects with the extraction-failed error carrying stderr, whatever stdout
\* holds; exit 0 with unparseable stdout rejects with the malformed-output
\* error carrying the parse error; exit 0 with valid JSON resolves with the
\* parsed value; a failed spawn rejects with the launch error, which is not
\* the non-zero-exit error; nothing is yielded before the process terminates.
ExitFailedPrefix(code) == <<"Python", "OCR", "script", "failed", "with", "code", ToString(code), ":">>
MalformedPrefix == <<"Failed", "to", "parse", "OCR", "output", ":">>
LaunchFailedPrefix == <<"Failed", "to", "start", "Python", "OCR", "process", ":">>

C6_OutcomeClassification ==
  \A r \in Reqs :
    LET p == proc[r].promise
        parsed == JSONParse(proc[r].stdout)
    IN /\ (~proc[r].closed /\ ~proc[r].errored) => p.state = "pending"
       /\ (\E code \in ExitCodes \ {0} : Exited(r, code)) =>
            /\ p.state = "rejected"
            /\ p.error.message = ExitFailedPrefix(proc[r].code) \o proc[r].stderr
       /\ (Exited(r, 0) /\ ~parsed.ok) =>
            /\ p.state = "rejected"
            /\ p.error.message = MalformedPrefix \o parsed.message
       /\ (Exited(r, 0) /\ parsed.ok) =>
            /\ p.state = "resolved"
            /\ p.value = parsed.value
       /\ proc[r].errored =>
            /\ p.state = "rejected"
            /\ SubSeq(p.error.message, 1, Len(LaunchFailedPrefix)) = LaunchFailedPrefix
            /\ ~Includes(p.error.message, <<"failed", "with", "code">>)

C6_Witness ==
  \E r \in Reqs :
    /\ Exited(r, 1)
    /\ JSONParse(proc[r].stdout).ok
    /\ proc[r].stderr # <<>>
    /\ proc[r].promise.state = "rejected"

\* C7: the pipeline reaches persistence only if total or amount_paid is
\* parseable as a non-negative number, and every payload where neither is
\* fails as extraction-incomplete with a 400 and no Transaction.
NonNegativeNumber(v) ==
  /\ v.t \in {"num", "str"}
  /\ Truthy(v) \/ v.t = "num"
  /\ parseFloat(v).t = "num"
  /\ parseFloat(v).n >= 0

AmountDetermined(payload) ==
  NonNegativeNumber(Get(payload, "total")) \/ NonNegativeNumber(Get(payload, "amount_paid"))

C7_AmountPostcondition ==
  \A r \in Reqs :
    /\ saves[r] > 0 => (ExtractedObject(r) /\ AmountDetermined(Payload(r)))
    /\ (Done(r) /\ ExtractedObject(r) /\ ~AmountDetermined(Payload(r))) =>
         /\ LastResponse(r).status = 400
         /\ LastResponse(r).message = "Could not extract amount from receipt"
         /\ TxnCount(r) = 0

\* C8 as stated: when save fails the uploaded file is deleted, a
\* ValidationError gives a 400 listing the invalid fields, any other store
\* failure gives a 500, and no Transaction is saved.
SaveFailureStatus(r) ==
  /\ saveP[r].error.name = "ValidationError" =>
       /\ LastResponse(r).status = 400
       /\ LastResponse(r).errors = saveP[r].error.errors
       /\ LastResponse(r).errors # {}
  /\ saveP[r].error.name # "ValidationError" => LastResponse(r).status = 500
  /\ TxnCount(r) = 0

C8_SaveFailureAlwaysDeletes ==
  \A r \in Reqs :
    (Done(r) /\ saveP[r].state = "rejected") =>
      /\ ~FileExists(r)
      /\ SaveFailureStatus(r)

\* C8 amended: when save fails the deletion of the uploaded file is
\* attempted and the file is gone unless the deletion itself failed; the
\* status depends only on the failure kind (ValidationError: 400 with the
\* invalid fields, otherwise 500); no Transaction is saved.
C8_SaveFailureCleanupAndStatus ==
  \A r \in Reqs :
    (Done(r) /\ saveP[r].state = "rejected") =>
      /\ cleanup[r] \in {"deleted", "failed"}
      /\ cleanup[r] = "deleted" => ~FileExists(r)
      /\ SaveFailureStatus(r)

C8_Witness ==
  \E r \in Reqs :
    /\ Done(r)
    /\ saveP[r].state = "rejected"
    /\ saveP[r].error.name = "ValidationError"
    /\ LastResponse(r).status = 400
    /\ cleanup[r] = "deleted"

\* C9: a non-zero exit is answered with the 500 extraction-failure response
\* 'Receipt OCR processing failed' carrying stderr, which is not the generic
\* 500 of a launch or store failure.
C9_NonZeroExitSurfaced ==
  \A r \in Reqs :
    (Done(r) /\ \E code \in ExitCodes \ {0} : Exited(r, code)) =>
      /\ LastResponse(r).status = 500
      /\ LastResponse(r).message = "Receipt OCR processing failed"
      /\ LastResponse(r).message # "Internal server error while processing receipt"
      /\ Includes(LastResponse(r).error, proc[r].stderr)

\* C10: once the subprocess is launched the flow eventually terminates,
\* even if the subprocess never exits.
C10_LaunchedEventuallyTerminal ==
  \A r \in Reqs : (pc[r] = "extracting") ~> Done(r)

\* C11: when the client disconnects after the file was written and before
\* persistence completes, the flow still terminates, and a terminated flow
\* never leaves the uploaded file without a saved Transaction.
C11_CancelledFlowCleansUp ==
  \A r \in Reqs :
    (Done(r) /\ disconnected[r] /\ HasFile(r) /\ TxnCount(r) = 0) => ~FileExists(r)

\* C12 as stated: in every interleaving of concurrent flows, no step of a
\* flow deletes or overwrites the uploaded file of another flow.
DeletedByAnother(r) == FileExists(r) /\ pc'[r] = pc[r] /\ ~FileExists(r)'
OverwrittenByAnother(r) ==
  \E r2 \in Flows \ {r} :
    /\ FileExists(r)
    /\ pc[r2] = "idle" /\ pc'[r2] = "uploaded"
    /\ req'[r2].file.path = req[r].file.path

NamesDistinct ==
  \A r1 \in Flows, r2 \in Flows :
    (r1 # r2 /\ HasFile(r1) /\ HasFile(r2)) => req[r1].file.path # req[r2].file.path

SameIngestion(r1, r2) ==
  /\ req[r1].userId = req[r2].userId
  /\ req[r1].parts = req[r2].parts
  /\ proc[r1].stdout = proc[r2].stdout

Succeeded(r) == Done(r) /\ LastResponse(r).status = 201

C13_NoDeduplication ==
  /\ [](\A r1 \in Flows, r2 \in Flows :
          (r1 # r2 /\ Succeeded(r1) /\ Succeeded(r2) /\ SameIngestion(r1, r2)) =>
            /\ TxnCount(r1) = 1 /\ TxnCount(r2) = 1
            /\ doc[r1]._id # doc[r2]._id
            /\ Len(store) = 2)
  /\ [](\A i \in DOMAIN store, j \in DOMAIN store : store[i]._id = store[j]._id => i = j)
  /\ [][Len(store') >= Len(store) /\ SubSeq(store', 1, Len(store)) = store]_vars

C13_Witness ==
  \E r1 \in Flows, r2 \in Flows :
    /\ r1 # r2
    /\ Succeeded(r1) /\ Succeeded(r2)
    /\ SameIngestion(r1, r2)
    /\ Len(store) = 2

\* C14 as stated: amount is the extracted total, and amount_paid only when
\* total is absent.
C14_TotalPreferred ==
  \A i \in DOMAIN normOut :
    LET o == normIn.ocrData IN
      /\ "total" \in DOMAIN o => normOut[i].result.amount = parseFloat(o["total"])
      /\ ("total" \notin DOMAIN o /\ "amount_paid" \in DOMAIN o) =>
           normOut[i].result.amount = parseFloat(o["amount_paid"])

\* C14 amended: amount is amount_paid when it is present, non-zero and
\* non-empty; otherwise total when that is present, non-zero and non-empty;
\* otherwise 0.  When both are such and differ, amount is amount_paid.
C14_AmountPaidPreferred ==
  \A i \in DOMAIN normOut :
    LET o == normIn.ocrData
        paid == Get(o, "amount_paid")
        total == Get(o, "total")
        usable(v) == v # Undef /\ v # Num(0) /\ v # Str("")
    IN normOut[i].result.amount =
         IF usable(paid) THEN parseFloat(paid)
         ELSE IF usable(total) THEN parseFloat(total)
         ELSE Num(0)

C14_Witness ==
  \E i \in DOMAIN normOut :
    /\ Get(normIn.ocrData, "total") = Num(42)
    /\ Get(normIn.ocrData, "amount_paid") = Num(30)
    /\ normOut[i].result.amount = Num(30)

\* C15: subclass is the extracted category when it is an expense category
\* and 'other_expenses' otherwise, so it is always an expense category.
C15_CategoryResolution ==
  \A i \in DOMAIN normOut :
    LET category == Get(normIn.ocrData, "category") IN
      /\ category \in expenseSubclasses => normOut[i].result.subclass = category
      /\ category \notin expenseSubclasses => normOut[i].result.subclass = Str("other_expenses")
      /\ normOut[i].result.subclass \in expenseSubclasses

C15_Witness ==
  \E i \in DOMAIN normOut :
    /\ Get(normIn.ocrData, "category") = Str("bogus_category")
    /\ normOut[i].result.subclass = Str("other_expenses")

\* C16: the date is the extracted date when that is present and parseable
\* and the moment of processing in every other case; it is never invalid.
C16_DateFallsBackToNow ==
  \A i \in DOMAIN normOut :
    LET date == Get(normIn.ocrData, "date")
        parseable == date.t = "str" /\ date.s \in DOMAIN DateStrings
    IN /\ parseable => normOut[i].result.date = DateAt(DateStrings[date.s])
       /\ ~parseable => normOut[i].result.date = DateAt(normOut[i].tNow)
       /\ normOut[i].result.date # InvalidDate

\* C17 as stated: two invocations on the same arguments return the same
\* value, date and capture timestamp included.
C17_SameValueEveryCall ==
  \A i \in DOMAIN normOut, j \in DOMAIN normOut : normOut[i].result = normOut[j].result

\* C17 amended: two invocations on the same arguments agree on every field
\* but the clock readings: receiptData.extractedAt, and date when the
\* extraction result has no (non-empty) date; no file or document is touched.
WithoutClock(result, keepDate) ==
  [result EXCEPT !.date = IF keepDate THEN @ ELSE Undef,
                 !.receiptData = [@ EXCEPT !.extractedAt = Undef]]

C17_SameValueButClock ==
  /\ \A i \in DOMAIN normOut, j \in DOMAIN normOut :
       /\ WithoutClock(normOut[i].result, Truthy(Get(normIn.ocrData, "date")))
            = WithoutClock(normOut[j].result, Truthy(Get(normIn.ocrData, "date")))
       /\ normOut[i].result.receiptData.extractedAt = DateAt(normOut[i].tExtracted)
       /\ ~Truthy(Get(normIn.ocrData, "date")) => normOut[i].result.date = DateAt(normOut[i].tNow)
  /\ normOut # <<>> => (files = {} /\ store = <<>>)

C17_Witness ==
  \E i \in DOMAIN normOut, j \in DOMAIN normOut :
    /\ normOut[i].tExtracted # normOut[j].tExtracted
    /\ Truthy(Get(normIn.ocrData, "date"))
    /\ normOut[i].result.date = normOut[j].result.date
    /\ normOut[i].result # normOut[j].result

\* the history request was answered from the results of both queries
Answered ==
  hist.phase = "done" /\ hist.find.state = "resolved" /\ hist.count.state = "resolved"
AskedPage == parseInt(pageOf(hist.query)).n
AskedLimit == parseInt(limitOf(hist.query)).n
\* the response carries the AskedPage-th slice of the documents in population,
\* newest first, and the pagination figures of a population of that size
PageOf(population, total) ==
  /\ hist.response.status = 200
  /\ \E o \in sortedByCreatedAtDesc(population) :
       hist.response.data =
         [i \in 1..(IF AskedPage * AskedLimit <= Len(o)
                      THEN AskedLimit
                      ELSE IF (AskedPage - 1) * AskedLimit >= Len(o)
                        THEN 0
                        ELSE Len(o) - (AskedPage - 1) * AskedLimit) |->
            o[(AskedPage - 1) * AskedLimit + i]]
  /\ hist.response.pagination.totalCount = total
  /\ \E n \in 0..total :
       /\ n * AskedLimit >= total
       /\ \A m \in 0..total : m * AskedLimit >= total => n <= m
       /\ hist.response.pagination.totalPages = n
  /\ hist.response.pagination.hasNext
       = (AskedPage < hist.response.pagination.totalPages)
  /\ hist.response.pagination.hasPrev = (AskedPage > 1)
OnlyOwnReceipts ==
  \A i \in DOMAIN hist.response.data :
    /\ hist.response.data[i].data.userId = hist.query.userId
    /\ "receiptData" \in DOMAIN hist.response.data[i].data

\* a step of the handler: the request arrives, a query settles or the answer is sent
HistoryStep ==
  \/ hist'.phase # hist.phase
  \/ /\ hist.phase = "querying"
     /\ hist'.find.state # hist.find.state \/ hist'.count.state # hist.count.state

\* C18 as stated: the answer is the page-th slice, newest first, of the
\* user's Transactions with receiptData, and totalCount, totalPages, hasNext
\* and hasPrev are the figures of those same Transactions.
C18_SliceAndCountAgree ==
  Answered => (PageOf(hist.found, Len(hist.found)) /\ OnlyOwnReceipts)

\* C18 amended: the answer is the page-th slice, newest first, of the user's
\* Transactions with receiptData that the find query matched, never a
\* Transaction of another user or one without receiptData; totalCount,
\* totalPages, hasNext and hasPrev are the figures of the Transactions the
\* count query matched, which are the same Transactions when none is created
\* or deleted between the two queries; the handler does not modify the store.
C18_SliceAndCountOfEachQuery ==
  /\ [](Answered => (PageOf(hist.found, Len(hist.counted)) /\ OnlyOwnReceipts))
  /\ []((Answered /\ hist.found = hist.counted) => PageOf(hist.found, Len(hist.found)))
  /\ [][HistoryStep => store' = store]_vars

C18_Witness ==
  /\ Answered
  /\ hist.found = hist.counted
  /\ Len(hist.found) = 3
  /\ AskedPage = 2 /\ AskedLimit = 2
  /\ Len(hist.response.data) = 1
  /\ hist.response.pagination.hasPrev
  /\ ~hist.response.pagination.hasNext

\* C19: the subprocess is launched at most once and only for a valid userId
\* and a present file; save is called at most once and only after the
\* subprocess exited with 0 and printed an object carrying an amount; once a
\* response is sent, nothing more is launched or saved for the request.
C19_PipelineOrder ==
  /\ [](\A r \in Reqs :
          /\ launches[r] <= 1
          /\ saves[r] <= 1
          /\ launches[r] > 0 => (ValidUser(r) /\ HasFile(r))
          /\ saves[r] > 0 =>
               /\ launches[r] = 1
               /\ Exited(r, 0)
               /\ ExtractedObject(r)
               /\ \/ Truthy(Get(Payload(r), "amount_paid"))
                  \/ Truthy(Get(Payload(r), "total")))
  /\ [][\A r \in Reqs :
          Done(r) => /\ Done(r)'
                     /\ launches'[r] = launches[r]
                     /\ saves'[r] = saves[r]]_vars

C19_Witness ==
  \E r \in Reqs :
    /\ Done(r)
    /\ launches[r] = 1
    /\ saves[r] = 1
    /\ LastResponse(r).status = 201

\* the error the catch block of r caught: the rejection of runOCRScript, the
\* TypeError on a null result, or the rejection of save
Originating(r) ==
  IF proc[r].promise.state = "rejected" THEN proc[r].promise.error
  ELSE IF proc[r].promise.value.t # "obj"
    THEN Err("TypeError", <<"Cannot", "read", "properties", "of", "null">>, {})
  ELSE saveP[r].error

\* C20: when the pipeline fails, the request terminates with exactly one
\* response, that of the originating error, whether the deletion of the
\* uploaded file succeeded or threw.
C20_CleanupBestEffort ==
  \A r \in Reqs :
    cleanup[r] \in {"deleted", "failed"} =>
      /\ Done(r)
      /\ Len(responses[r]) = 1
      /\ Originating(r).kind = "error"
      /\ LastResponse(r).status \in {400, 500}
      /\ LastResponse(r) = errorResponse(Originating(r))

C20_Witness ==
  \E r \in Reqs :
    /\ cleanup[r] = "failed"
    /\ FileExists(r)
    /\ Done(r)
    /\ saveP[r].state = "rejected"
    /\ LastResponse(r).status = 400

\* C21: a request has sent no response while it is handled and exactly one
\* when it has terminated; every response other than the 201 carries
\* success false, a non-empty message and status 400 or 500; the 201 carries
\* success true and is sent only when the request's Transaction is saved.
C21_ExactlyOneResponse ==
  \A r \in Reqs :
    /\ Len(responses[r]) <= 1
    /\ Done(r) <=> Len(responses[r]) = 1
    /\ \A i \in DOMAIN responses[r] :
         /\ responses[r][i].status # 201 =>
              /\ responses[r][i].success = FALSE
              /\ responses[r][i].message # ""
              /\ responses[r][i].status \in {400, 500}
         /\ responses[r][i].status = 201 =>
              /\ responses[r][i].success = TRUE
              /\ saveP[r].state = "resolved"
              /\ TxnCount(r) = 1

C21_Witness ==
  \E r \in Reqs :
    /\ Done(r)
    /\ launches[r] = 1
    /\ Len(responses[r]) = 1
    /\ responses[r][1].status = 500
    /\ responses[r][1].success = FALSE

\* C22: the promise of runOCRScript is settled by the first 'error' or
\* 'close' event and never changes afterwards; when both events fired, the
\* outcome is the one of 'error', which fired first; the outcome of 'close'
\* is computed from everything the process wrote to stdout and stderr.
C22_FirstEventDecides ==
  /\ [][\A r \in Reqs :
          proc[r].promise.state # "pending" => proc'[r].promise = proc[r].promise]_vars
  /\ [](\A r \in Reqs :
          /\ (proc[r].closed \/ proc[r].errored) => proc[r].promise.state # "pending"
          /\ (proc[r].closed /\ proc[r].errored) =>
               proc[r].promise = errorOutcome(<<"spawn", "python", "ENOENT">>)
          /\ (proc[r].closed /\ ~proc[r].errored) =>
               \E run \in Runs :
                 /\ proc[r].stdout = run.out
                 /\ proc[r].stderr = run.err
                 /\ proc[r].promise = closeOutcome(proc[r].code, run.out, run.err))

C22_Witness ==
  \E r \in Reqs :
    /\ proc[r].errored
    /\ proc[r].closed
    /\ proc[r].code \in SpawnFailedCodes
    /\ proc[r].promise.state = "rejected"
    /\ SubSeq(proc[r].promise.error.message, 1, Len(LaunchFailedPrefix)) = LaunchFailedPrefix

====
